---- MODULE Spec2Model ----
(***************************************************************************)
(* Cirque: a single-writer, multi-reader circular FIFO queue over Go's     *)
(* container/ring, in its two variants:                                    *)
(*   "blocking"  type RingBuffer: New / WriteOrWait / Read                 *)
(*   "growing"   type Cirque: New / Enqueue / Dequeue / Len / grow         *)
(* One writer goroutine (Writer) and the reader goroutines Readers run     *)
(* interleaved; every atomic load/store, channel operation, mutex          *)
(* operation and plain memory access of the code is one step.              *)
(***************************************************************************)
EXTENDS Integers, Sequences, FiniteSets, TLC

\* ---------------------------------------------------------------- bounds
MaxN == 3          \* largest capacity handed to New
MaxWrites == 4     \* items handed to WriteOrWait in a run
MaxEnqueues == 3   \* items handed to Enqueue in a run
MaxBatch == 2      \* largest slice handed to one WriteOrWait / Enqueue call
MaxK == 2          \* largest count handed to one Read / Dequeue call
NumReaders == 2    \* reader goroutines

Writer == 0
Readers == 1..NumReaders
Free == -1         \* the mutex is unlocked
NoSlot == 0        \* a nil *ring.Ring
Empty == 0         \* a slot whose Value is nil
NArgs == (0 - 1)..MaxN
KArgs == (0 - 1)..MaxK
Policies == {"blocking", "growing"}

VARIABLES
    policy,     \* which variant was constructed
    nArg,       \* the n handed to New
    isNil,      \* New returned nil
    next,       \* Ring.next of every allocated slot
    prev,       \* Ring.prev of every allocated slot
    val,        \* Ring.Value of every allocated slot (Empty = nil)
    writeHead,  \* writer head position
    readHead,   \* reader head position
    mu,         \* holder of mu / readMu, or Free
    waiters,    \* goroutines queued on the mutex, in arrival order
    len,        \* growing: number of items in queue
    cap,        \* growing: capacity of queue
    wpc,        \* the writer's position in WriteOrWait / Enqueue
    wm,         \* len(newItems) / len(elements) of the writer's call
    wend,       \* number of the last item of the writer's call
    wdone,      \* items the writer has written and moved past
    wtmp,       \* growing: the value of len loaded by len++
    grows,      \* growing: calls of grow made within the current Enqueue
    gmin,       \* growing: the min argument of the current grow call
    rpc,        \* each reader's position in Read / Dequeue
    rk,         \* each reader's n argument
    res,        \* each reader's result slice
    rtmp,       \* growing: the value of len loaded by len--
    rmoved,     \* read head moves made within each reader's current call
    rquiet,     \* no writer call has been open since the reader's call began
    out,        \* every item read, in the order read
    sent,       \* blocking: sends on updateCh attempted
    panicked    \* a goroutine panicked

ring == <<next, prev, val>>
heads == <<writeHead, readHead>>
lock == <<mu, waiters>>
wvars == <<wpc, wm, wend, wdone, wtmp, grows, gmin>>
rvars == <<rpc, rk, res, rtmp, rmoved, rquiet, out>>
consts == <<policy, nArg, isNil>>
vars == <<policy, nArg, isNil, next, prev, val, writeHead, readHead, mu,
          waiters, len, cap, wpc, wm, wend, wdone, wtmp, grows, gmin, rpc,
          rk, res, rtmp, rmoved, rquiet, out, sent, panicked>>

\* ------------------------------------------------------- container/ring
\* ring.New(n) on fresh slots base+1 .. base+n; nil (no slot) when n <= 0.
RingNext(base, n) ==
    [s \in (base + 1)..(base + n) |-> IF s = base + n THEN base + 1 ELSE s + 1]

RingPrev(base, n) ==
    [s \in (base + 1)..(base + n) |-> IF s = base + 1 THEN base + n ELSE s - 1]

RingVal(base, n) == [s \in (base + 1)..(base + n) |-> Empty]

\* mutant of LinkNext: the other ring is linked in before r, not after it
LinkNextBefore(nx, pv, r, s) == [nx EXCEPT ![pv[r]] = s, ![pv[s]] = r]

\* mutant of LinkNext: the last slot of the other ring is not linked back
LinkNextNoClose(nx, pv, r, s) == [nx EXCEPT ![r] = s]

\* r.Link(s): r.next = s; s.prev = r; n.prev = p; p.next = n
\* with n = r.Next() and p = s.Prev(), s the first slot of another ring.
LinkNext(nx, pv, r, s) == [nx EXCEPT ![r] = s, ![pv[s]] = nx[r]]

LinkPrev(nx, pv, r, s) == [pv EXCEPT ![s] = r, ![nx[r]] = pv[s]]

\* mutant of LockMu: Lock takes the mutex whoever holds it
LockMuBarge(p) == mu' = p /\ waiters' = waiters

\* ---------------------------------------------------------- sync.Mutex
\* Lock: taken at once when free, else the caller queues; Unlock hands the
\* mutex to the longest waiter (Go's starvation mode), else frees it.
LockMu(p) ==
    IF mu = Free
    THEN mu' = p /\ waiters' = waiters
    ELSE mu' = mu /\ waiters' = Append(waiters, p)

UnlockMu ==
    IF waiters = <<>>
    THEN mu' = Free /\ waiters' = waiters
    ELSE mu' = Head(waiters) /\ waiters' = Tail(waiters)

\* mutant of New: the guard is n < 0, so New(0) hands out a queue
NewZeroAllowed(p, n) ==
    /\ policy = p
    /\ nArg = n
    /\ isNil = (n < 0)
    /\ next = RingNext(0, n)
    /\ prev = RingPrev(0, n)
    /\ val = RingVal(0, n)
    /\ readHead = IF n <= 0 THEN NoSlot ELSE 1
    /\ writeHead = readHead
    /\ mu = Free
    /\ waiters = <<>>
    /\ len = 0
    /\ cap = IF p = "growing" /\ n > 0 THEN n ELSE 0
    /\ wpc = "idle"
    /\ wm = 0
    /\ wend = 0
    /\ wdone = 0
    /\ wtmp = 0
    /\ grows = 0
    /\ gmin = 0
    /\ rpc = [r \in Readers |-> "idle"]
    /\ rk = [r \in Readers |-> 0]
    /\ res = [r \in Readers |-> <<>>]
    /\ rtmp = [r \in Readers |-> 0]
    /\ rmoved = [r \in Readers |-> 0]
    /\ rquiet = [r \in Readers |-> FALSE]
    /\ out = <<>>
    /\ sent = 0
    /\ panicked = FALSE

\* ------------------------------------------------------------------ New
New(p, n) ==
    /\ policy = p
    /\ nArg = n
    /\ isNil = (n <= 0)
    /\ next = RingNext(0, n)
    /\ prev = RingPrev(0, n)
    /\ val = RingVal(0, n)
    /\ readHead = IF n <= 0 THEN NoSlot ELSE 1
    /\ writeHead = readHead
    /\ mu = Free
    /\ waiters = <<>>
    /\ len = 0
    /\ cap = IF p = "growing" /\ n > 0 THEN n ELSE 0
    /\ wpc = "idle"
    /\ wm = 0
    /\ wend = 0
    /\ wdone = 0
    /\ wtmp = 0
    /\ grows = 0
    /\ gmin = 0
    /\ rpc = [r \in Readers |-> "idle"]
    /\ rk = [r \in Readers |-> 0]
    /\ res = [r \in Readers |-> <<>>]
    /\ rtmp = [r \in Readers |-> 0]
    /\ rmoved = [r \in Readers |-> 0]
    /\ rquiet = [r \in Readers |-> FALSE]
    /\ out = <<>>
    /\ sent = 0
    /\ panicked = FALSE

Init == \E p \in Policies, n \in NArgs : New(p, n)

Live == ~isNil /\ ~panicked
Blocking == Live /\ policy = "blocking"
Growing == Live /\ policy = "growing"

\* mutant of IsFull: the fullness test compares the heads themselves
IsFullSameSlot == writeHead = readHead

\* the writer head is next to the reader head: the ring is full
IsFull == next[writeHead] = readHead

\* the reader head is in the same place as the writer head: nothing to read
IsEmpty == readHead = writeHead

\* ============================================================= blocking
\* ------------------------------------------------- WriteOrWait (writer)
\* the call: for _, item := range newItems
WriteOrWait(m) ==
    /\ Blocking
    /\ wpc = "idle"
    /\ wdone + m <= MaxWrites
    /\ wm' = m
    /\ wend' = wdone + m
    /\ wpc' = IF m = 0 THEN "idle" ELSE "check"
    /\ rquiet' = [r \in Readers |-> FALSE]
    /\ UNCHANGED <<consts, ring, heads, lock, len, cap, wdone, wtmp, grows,
                   gmin, rpc, rk, res, rtmp, rmoved, out, sent, panicked>>

\* if rb.getWriterHead().Next() == rb.getReaderHead()
WriteCheck ==
    /\ Blocking
    /\ wpc = "check"
    /\ wpc' = IF IsFull THEN "recv" ELSE "write"
    /\ UNCHANGED <<consts, ring, heads, lock, len, cap, wm, wend, wdone,
                   wtmp, grows, gmin, rvars, sent, panicked>>

\* <-rb.updateCh: the writer parks on the channel until a reader sends
WritePark ==
    /\ Blocking
    /\ wpc = "recv"
    /\ wpc' = "parked"
    /\ UNCHANGED <<consts, ring, heads, lock, len, cap, wm, wend, wdone,
                   wtmp, grows, gmin, rvars, sent, panicked>>

\* rb.write(item): store the item in the slot under the writer head
WriteItem ==
    /\ Blocking
    /\ wpc = "write"
    /\ val' = [val EXCEPT ![writeHead] = wdone + 1]
    /\ wpc' = "move"
    /\ UNCHANGED <<consts, next, prev, heads, lock, len, cap, wm, wend,
                   wdone, wtmp, grows, gmin, rvars, sent, panicked>>

\* rb.moveWriterHeadForward(), then the next item or return
WriteMove ==
    /\ Blocking
    /\ wpc = "move"
    /\ writeHead' = next[writeHead]
    /\ wdone' = wdone + 1
    /\ wpc' = IF wdone + 1 = wend THEN "idle" ELSE "check"
    /\ UNCHANGED <<consts, ring, readHead, lock, len, cap, wm, wend, wtmp,
                   grows, gmin, rvars, sent, panicked>>

\* mutant of Read: the guard is n < 0, so Read(0) goes on to the lock
ReadZeroLocks(r, k) ==
    /\ Blocking
    /\ rpc[r] = "idle"
    /\ rk' = [rk EXCEPT ![r] = k]
    /\ res' = [res EXCEPT ![r] = <<>>]
    /\ rpc' = [rpc EXCEPT ![r] = IF k < 0 THEN "idle" ELSE "lock"]
    /\ rmoved' = [rmoved EXCEPT ![r] = 0]
    /\ rquiet' = [rquiet EXCEPT ![r] = (wpc = "idle")]
    /\ UNCHANGED <<consts, ring, heads, lock, len, cap, wvars, rtmp, out,
                   sent, panicked>>

\* -------------------------------------------------------- Read (readers)
\* the call: if n <= 0 { return nil }; var result []T
Read(r, k) ==
    /\ Blocking
    /\ rpc[r] = "idle"
    /\ rk' = [rk EXCEPT ![r] = k]
    /\ res' = [res EXCEPT ![r] = <<>>]
    /\ rpc' = [rpc EXCEPT ![r] = IF k <= 0 THEN "idle" ELSE "lock"]
    /\ rmoved' = [rmoved EXCEPT ![r] = 0]
    /\ rquiet' = [rquiet EXCEPT ![r] = (wpc = "idle")]
    /\ UNCHANGED <<consts, ring, heads, lock, len, cap, wvars, rtmp, out,
                   sent, panicked>>

\* rb.mu.Lock()
ReadLock(r) ==
    /\ Blocking
    /\ rpc[r] = "lock"
    /\ LockMu(r)
    /\ rpc' = [rpc EXCEPT ![r] = "loop"]
    /\ UNCHANGED <<consts, rquiet, rmoved, ring, heads, len, cap, wvars, rk, res, rtmp, out,
                   sent, panicked>>

\* mutant of ReadLoop: the loop only counts, it does not test for empty
ReadLoopNoEmptyTest(r) ==
    /\ Blocking
    /\ rpc[r] = "loop"
    /\ mu = r
    /\ rpc' = [rpc EXCEPT ![r] =
                 IF Len(res[r]) < rk[r] THEN "read" ELSE "unlock"]
    /\ UNCHANGED <<consts, rquiet, rmoved, ring, heads, lock, len, cap, wvars, rk, res, rtmp,
                   out, sent, panicked>>

\* for i := 0; i < n; i++ { if readHead == writeHead { return result }
ReadLoop(r) ==
    /\ Blocking
    /\ rpc[r] = "loop"
    /\ mu = r
    /\ rpc' = [rpc EXCEPT ![r] =
                 IF Len(res[r]) < rk[r] /\ ~IsEmpty THEN "read" ELSE "unlock"]
    /\ UNCHANGED <<consts, rquiet, rmoved, ring, heads, lock, len, cap, wvars, rk, res, rtmp,
                   out, sent, panicked>>

\* result = append(result, rb.read()); a nil Value panics
ReadItem(r) ==
    /\ Blocking
    /\ rpc[r] = "read"
    /\ IF val[readHead] = Empty
       THEN /\ panicked' = TRUE
            /\ UNCHANGED <<rpc, res, out>>
       ELSE /\ res' = [res EXCEPT ![r] = Append(@, val[readHead])]
            /\ out' = Append(out, val[readHead])
            /\ rpc' = [rpc EXCEPT ![r] = "move"]
            /\ UNCHANGED panicked
    /\ UNCHANGED <<consts, rquiet, rmoved, ring, heads, lock, len, cap, wvars, rk, rtmp,
                   sent>>

\* rb.moveHeadForward(&rb.readHead)
ReadMove(r) ==
    /\ Blocking
    /\ rpc[r] = "move"
    /\ readHead' = next[readHead]
    /\ rpc' = [rpc EXCEPT ![r] = "notify"]
    /\ rmoved' = [rmoved EXCEPT ![r] = @ + 1]
    /\ UNCHANGED <<consts, rquiet, ring, writeHead, lock, len, cap, wvars, rk, res,
                   rtmp, out, sent, panicked>>

\* mutant of ReadNotify: a plain send, which waits for the writer to receive
ReadNotifyBlocking(r) ==
    /\ Blocking
    /\ rpc[r] = "notify"
    /\ wpc = "parked"
    /\ sent' = sent + 1
    /\ wpc' = IF wpc = "parked" THEN "write" ELSE wpc
    /\ rpc' = [rpc EXCEPT ![r] = "loop"]
    /\ UNCHANGED <<consts, rquiet, rmoved, ring, heads, lock, len, cap, wm, wend, wdone,
                   wtmp, grows, gmin, rk, res, rtmp, out, panicked>>

\* select { case rb.updateCh <- struct{}{}: default: }
\* the send succeeds only if the writer is parked on the channel
ReadNotify(r) ==
    /\ Blocking
    /\ rpc[r] = "notify"
    /\ sent' = sent + 1
    /\ wpc' = IF wpc = "parked" THEN "write" ELSE wpc
    /\ rpc' = [rpc EXCEPT ![r] = "loop"]
    /\ UNCHANGED <<consts, rquiet, rmoved, ring, heads, lock, len, cap, wm, wend, wdone,
                   wtmp, grows, gmin, rk, res, rtmp, out, panicked>>

\* defer rb.mu.Unlock(); return result
ReadUnlock(r) ==
    /\ Blocking
    /\ rpc[r] = "unlock"
    /\ UnlockMu
    /\ rpc' = [rpc EXCEPT ![r] = "idle"]
    /\ rquiet' = [rquiet EXCEPT ![r] = FALSE]
    /\ UNCHANGED <<consts, rmoved, ring, heads, len, cap, wvars, rk, res, rtmp, out,
                   sent, panicked>>

WriterB ==
    \/ \E m \in 0..MaxBatch : WriteOrWait(m)
    \/ WriteCheck
    \/ WritePark
    \/ WriteItem
    \/ WriteMove

ReaderB(r) ==
    \/ \E k \in KArgs : Read(r, k)
    \/ ReadLock(r)
    \/ ReadLoop(r)
    \/ ReadItem(r)
    \/ ReadMove(r)
    \/ ReadNotify(r)
    \/ ReadUnlock(r)

NextB == WriterB \/ \E r \in Readers : ReaderB(r)

InitB == \E n \in NArgs : New("blocking", n)

SpecB == InitB /\ [][NextB]_vars

\* ============================================================== growing
\* Len(): the number of items currently in the queue
CirqueLen == len

\* mutant of MinSize: grow is asked for one slot
MinSizeOne(c, m) == 1

\* minSize := cq.cap + len(elements)
MinSize(c, m) == c + m

\* slots allocated so far; ring.New hands out the following ones
NSlots == Cardinality(DOMAIN next)

\* ----------------------------------------------------- Enqueue (writer)
\* the call: for _, item := range elements
Enqueue(m) ==
    /\ Growing
    /\ wpc = "idle"
    /\ wdone + m <= MaxEnqueues
    /\ wm' = m
    /\ wend' = wdone + m
    /\ grows' = 0
    /\ wpc' = IF m = 0 THEN "idle" ELSE "check"
    /\ rquiet' = [r \in Readers |-> FALSE]
    /\ UNCHANGED <<consts, ring, heads, lock, len, cap, wdone, wtmp, gmin,
                   rpc, rk, res, rtmp, rmoved, out, sent, panicked>>

\* if cq.getWriterHead().Next() == cq.getReaderHead() { cq.grow(minSize) }
EnqueueCheck ==
    /\ Growing
    /\ wpc = "check"
    /\ IF IsFull
       THEN /\ gmin' = MinSize(cap, wm)
            /\ grows' = grows + 1
            /\ wpc' = "grow"
       ELSE /\ wpc' = "write"
            /\ UNCHANGED <<gmin, grows>>
    /\ UNCHANGED <<consts, ring, heads, lock, len, cap, wm, wend, wdone,
                   wtmp, rvars, sent, panicked>>

\* where grow returns to: the store of the Enqueue that called it, or the
\* caller of a call made outside Enqueue
AfterGrow == IF wdone < wend THEN "write" ELSE "idle"

\* mutant of GrowLock: no test of min before the lock
GrowLockNoGuard ==
    /\ Growing
    /\ wpc = "grow"
    /\ wpc' = "splice"
    /\ LockMu(Writer)
    /\ UNCHANGED <<consts, ring, heads, len, cap, wm, wend, wdone, wtmp,
                   grows, gmin, rvars, sent, panicked>>

\* grow: if min < 0 { log; return }; cq.readMu.Lock()
GrowLock ==
    /\ Growing
    /\ wpc = "grow"
    /\ IF gmin < 0
       THEN wpc' = AfterGrow /\ gmin' = 0 /\ UNCHANGED lock
       ELSE wpc' = "splice" /\ LockMu(Writer) /\ UNCHANGED gmin
    /\ UNCHANGED <<consts, ring, heads, len, cap, wm, wend, wdone, wtmp,
                   grows, rvars, sent, panicked>>

\* mutant of GrowSplice: the capacity is not updated
GrowSpliceNoCap ==
    /\ Growing
    /\ wpc = "splice"
    /\ mu = Writer
    /\ LET base == NSlots
           nx == next @@ RingNext(base, gmin)
           pv == prev @@ RingPrev(base, gmin)
       IN  /\ next' = IF gmin <= 0 THEN next
                      ELSE LinkNext(nx, pv, writeHead, base + 1)
           /\ prev' = IF gmin <= 0 THEN prev
                      ELSE LinkPrev(nx, pv, writeHead, base + 1)
           /\ val' = val @@ RingVal(base, gmin)
    /\ wpc' = "growUnlock"
    /\ UNCHANGED <<consts, heads, lock, len, cap, wm, wend, wdone, wtmp, grows,
                   gmin, rvars, sent, panicked>>

\* newRing := ring.New(min); cq.writeHead.Link(newRing); cq.cap += min
\* (ring.New(0) is nil and Link(nil) links nothing)
GrowSplice ==
    /\ Growing
    /\ wpc = "splice"
    /\ mu = Writer
    /\ LET base == NSlots
           nx == next @@ RingNext(base, gmin)
           pv == prev @@ RingPrev(base, gmin)
       IN  /\ next' = IF gmin <= 0 THEN next
                      ELSE LinkNext(nx, pv, writeHead, base + 1)
           /\ prev' = IF gmin <= 0 THEN prev
                      ELSE LinkPrev(nx, pv, writeHead, base + 1)
           /\ val' = val @@ RingVal(base, gmin)
    /\ cap' = cap + gmin
    /\ wpc' = "growUnlock"
    /\ UNCHANGED <<consts, heads, lock, len, wm, wend, wdone, wtmp, grows,
                   gmin, rvars, sent, panicked>>

\* defer cq.readMu.Unlock()
GrowUnlock ==
    /\ Growing
    /\ wpc = "growUnlock"
    /\ UnlockMu
    /\ wpc' = AfterGrow
    /\ gmin' = 0
    /\ UNCHANGED <<consts, ring, heads, len, cap, wm, wend, wdone, wtmp,
                   grows, rvars, sent, panicked>>

\* cq.write(item): h.Value = item
EnqueueItem ==
    /\ Growing
    /\ wpc = "write"
    /\ val' = [val EXCEPT ![writeHead] = wdone + 1]
    /\ wpc' = "lenLoad"
    /\ UNCHANGED <<consts, next, prev, heads, lock, len, cap, wm, wend,
                   wdone, wtmp, grows, gmin, rvars, sent, panicked>>

\* cq.len++ made without the lock: the load ...
EnqueueLenLoad ==
    /\ Growing
    /\ wpc = "lenLoad"
    /\ wtmp' = len
    /\ wpc' = "lenStore"
    /\ UNCHANGED <<consts, ring, heads, lock, len, cap, wm, wend, wdone,
                   grows, gmin, rvars, sent, panicked>>

\* ... and the store of cq.len++
EnqueueLenStore ==
    /\ Growing
    /\ wpc = "lenStore"
    /\ len' = wtmp + 1
    /\ wtmp' = 0
    /\ wpc' = "move"
    /\ UNCHANGED <<consts, ring, heads, lock, cap, wm, wend, wdone, grows,
                   gmin, rvars, sent, panicked>>

\* cq.moveWriterHeadForward(), then the next item or return
EnqueueMove ==
    /\ Growing
    /\ wpc = "move"
    /\ writeHead' = next[writeHead]
    /\ wdone' = wdone + 1
    /\ wpc' = IF wdone + 1 = wend THEN "idle" ELSE "check"
    /\ UNCHANGED <<consts, ring, readHead, lock, len, cap, wm, wend, wtmp,
                   grows, gmin, rvars, sent, panicked>>

\* ---------------------------------------------------- Dequeue (readers)
\* the call: if n <= 0 { return nil }; var result []T
Dequeue(r, k) ==
    /\ Growing
    /\ rpc[r] = "idle"
    /\ rk' = [rk EXCEPT ![r] = k]
    /\ res' = [res EXCEPT ![r] = <<>>]
    /\ rpc' = [rpc EXCEPT ![r] = IF k <= 0 THEN "idle" ELSE "lock"]
    /\ rmoved' = [rmoved EXCEPT ![r] = 0]
    /\ rquiet' = [rquiet EXCEPT ![r] = (wpc = "idle")]
    /\ UNCHANGED <<consts, ring, heads, lock, len, cap, wvars, rtmp, out,
                   sent, panicked>>

\* cq.readMu.Lock()
DequeueLock(r) ==
    /\ Growing
    /\ rpc[r] = "lock"
    /\ LockMu(r)
    /\ rpc' = [rpc EXCEPT ![r] = "loop"]
    /\ UNCHANGED <<consts, rquiet, rmoved, ring, heads, len, cap, wvars, rk, res, rtmp, out,
                   sent, panicked>>

\* for i := 0; i < n; i++ { if readHead == writeHead { return result }
DequeueLoop(r) ==
    /\ Growing
    /\ rpc[r] = "loop"
    /\ mu = r
    /\ rpc' = [rpc EXCEPT ![r] =
                 IF Len(res[r]) < rk[r] /\ ~IsEmpty THEN "read" ELSE "unlock"]
    /\ UNCHANGED <<consts, rquiet, rmoved, ring, heads, lock, len, cap, wvars, rk, res, rtmp,
                   out, sent, panicked>>

\* result = append(result, cq.read()); Value.(T) of a nil Value panics
DequeueItem(r) ==
    /\ Growing
    /\ rpc[r] = "read"
    /\ IF val[readHead] = Empty
       THEN /\ panicked' = TRUE
            /\ UNCHANGED <<rpc, res, out>>
       ELSE /\ res' = [res EXCEPT ![r] = Append(@, val[readHead])]
            /\ out' = Append(out, val[readHead])
            /\ rpc' = [rpc EXCEPT ![r] = "lenLoad"]
            /\ UNCHANGED panicked
    /\ UNCHANGED <<consts, rquiet, rmoved, ring, heads, lock, len, cap, wvars, rk, rtmp,
                   sent>>

\* cq.len-- made under the read lock: the load ...
DequeueLenLoad(r) ==
    /\ Growing
    /\ rpc[r] = "lenLoad"
    /\ rtmp' = [rtmp EXCEPT ![r] = len]
    /\ rpc' = [rpc EXCEPT ![r] = "lenStore"]
    /\ UNCHANGED <<consts, rquiet, rmoved, ring, heads, lock, len, cap, wvars, rk, res, out,
                   sent, panicked>>

\* ... and the store of cq.len--
DequeueLenStore(r) ==
    /\ Growing
    /\ rpc[r] = "lenStore"
    /\ len' = rtmp[r] - 1
    /\ rtmp' = [rtmp EXCEPT ![r] = 0]
    /\ rpc' = [rpc EXCEPT ![r] = "move"]
    /\ UNCHANGED <<consts, rquiet, rmoved, ring, heads, lock, cap, wvars, rk, res, out, sent,
                   panicked>>

\* cq.moveReaderHeadForward()
DequeueMove(r) ==
    /\ Growing
    /\ rpc[r] = "move"
    /\ readHead' = next[readHead]
    /\ rpc' = [rpc EXCEPT ![r] = "loop"]
    /\ rmoved' = [rmoved EXCEPT ![r] = @ + 1]
    /\ UNCHANGED <<consts, rquiet, ring, writeHead, lock, len, cap, wvars, rk, res,
                   rtmp, out, sent, panicked>>

\* mutant of DequeueUnlock: the return leaves readMu locked
DequeueNoUnlock(r) ==
    /\ Growing
    /\ rpc[r] = "unlock"
    /\ rpc' = [rpc EXCEPT ![r] = "idle"]
    /\ rquiet' = [rquiet EXCEPT ![r] = FALSE]
    /\ UNCHANGED <<consts, rmoved, ring, heads, lock, len, cap, wvars, rk, res, rtmp,
                   out, sent, panicked>>

\* defer cq.readMu.Unlock(); return result
DequeueUnlock(r) ==
    /\ Growing
    /\ rpc[r] = "unlock"
    /\ UnlockMu
    /\ rpc' = [rpc EXCEPT ![r] = "idle"]
    /\ rquiet' = [rquiet EXCEPT ![r] = FALSE]
    /\ UNCHANGED <<consts, rmoved, ring, heads, len, cap, wvars, rk, res, rtmp, out,
                   sent, panicked>>

WriterG ==
    \/ \E m \in 0..MaxBatch : Enqueue(m)
    \/ EnqueueCheck
    \/ GrowLock
    \/ GrowSplice
    \/ GrowUnlock
    \/ EnqueueItem
    \/ EnqueueLenLoad
    \/ EnqueueLenStore
    \/ EnqueueMove

ReaderG(r) ==
    \/ \E k \in KArgs : Dequeue(r, k)
    \/ DequeueLock(r)
    \/ DequeueLoop(r)
    \/ DequeueItem(r)
    \/ DequeueLenLoad(r)
    \/ DequeueLenStore(r)
    \/ DequeueMove(r)
    \/ DequeueUnlock(r)

NextG == WriterG \/ \E r \in Readers : ReaderG(r)

InitG == \E n \in NArgs : New("growing", n)

SpecG == InitG /\ [][NextG]_vars

\* ------------------------------------------- grow called on its own
\* grow is unexported; Enqueue only asks for cap + len(elements) >= 2.
\* The amounts that grow itself guards against are given by a call made
\* by the writer goroutine between two Enqueue calls.
GrowArgs == {0 - 1, 0}

GrowCall(min) ==
    /\ Growing
    /\ wpc = "idle"
    /\ gmin' = min
    /\ wpc' = "grow"
    /\ rquiet' = [r \in Readers |-> FALSE]
    /\ UNCHANGED <<consts, ring, heads, lock, len, cap, wm, wend, wdone,
                   wtmp, grows, rpc, rk, res, rtmp, rmoved, out, sent,
                   panicked>>

NextGrow == NextG \/ \E min \in GrowArgs : GrowCall(min)

SpecGrow == InitG /\ [][NextGrow]_vars

\* ========================================================= both variants
Next == NextB \/ NextG

Spec == Init /\ [][Next]_vars

\* ------------------------------------------------------------- fairness
\* The Go scheduler runs every runnable goroutine: each goroutine that is
\* inside a call takes its next step (weak fairness).  The mutex hands
\* itself to a queued waiter, so a goroutine waiting in Lock needs no more.
WriterStepB == WriteCheck \/ WritePark \/ WriteItem \/ WriteMove

ReaderStepB(r) ==
    \/ ReadLock(r)
    \/ ReadLoop(r)
    \/ ReadItem(r)
    \/ ReadMove(r)
    \/ ReadNotify(r)
    \/ ReadUnlock(r)

\* readers keep calling Read(k) with k >= 1
ReadAgain(r) == \E k \in 1..MaxK : Read(r, k)

FairSpecB ==
    /\ SpecB
    /\ WF_vars(WriterStepB)
    /\ \A r \in Readers : WF_vars(ReaderStepB(r)) /\ WF_vars(ReadAgain(r))

\* the readers alone are scheduled fairly: nothing is assumed of the writer
FairReadersB == SpecB /\ \A r \in Readers : WF_vars(ReaderStepB(r))

WriterStepG ==
    \/ EnqueueCheck
    \/ GrowLock
    \/ GrowSplice
    \/ GrowUnlock
    \/ EnqueueItem
    \/ EnqueueLenLoad
    \/ EnqueueLenStore
    \/ EnqueueMove

ReaderStepG(r) ==
    \/ DequeueLock(r)
    \/ DequeueLoop(r)
    \/ DequeueItem(r)
    \/ DequeueLenLoad(r)
    \/ DequeueLenStore(r)
    \/ DequeueMove(r)
    \/ DequeueUnlock(r)

FairSpecG ==
    /\ SpecG
    /\ WF_vars(WriterStepG)
    /\ \A r \in Readers : WF_vars(ReaderStepG(r))

\* no call is in progress
AllIdle == wpc = "idle" /\ \A r \in Readers : rpc[r] = "idle"

\* ------------------------------------------------ the full-ring scenario
\* Construct a blocking queue of capacity n; the writer hands over n items
\* (in calls of any size) with no reader running; once the writer is
\* suspended one reader calls Read(1); once the writer has returned and
\* that Read has returned, one reader calls Read(10).
NoReadYet == \A r \in Readers : rpc[r] = "idle" /\ rk[r] = 0

ScenarioWrite == \E m \in 1..MaxBatch : wend + m <= nArg /\ WriteOrWait(m)

ScenarioReadOne == \E r \in Readers : NoReadYet /\ wpc = "parked" /\ Read(r, 1)

ScenarioReadTen ==
    \E r \in Readers :
        /\ AllIdle
        /\ wdone = nArg
        /\ \E q \in Readers : rk[q] = 1
        /\ \A q \in Readers : rk[q] # 10
        /\ Read(r, 10)

NextScenario ==
    \/ ScenarioWrite
    \/ WriterStepB
    \/ ScenarioReadOne
    \/ ScenarioReadTen
    \/ \E r \in Readers : ReaderStepB(r)

InitScenario == \E n \in 2..MaxWrites : New("blocking", n)

SpecScenario == InitScenario /\ [][NextScenario]_vars

\* =============================================================== claims
\* items are numbered 1, 2, ... in the order the writer hands them over
InOrder(seq) == \A i \in DOMAIN seq : seq[i] = i

\* C1: blocking queue, capacity n >= 2: the values returned by Read, in
\* lock order, are a prefix of the values written (nothing skipped,
\* overwritten before being read, or reordered).
C1_ReadsArePrefixOfWrites ==
    (policy = "blocking" /\ nArg >= 2) => InOrder(out)

\* C2: blocking queue: a notification dropped because the writer was not
\* yet waiting never leaves the writer suspended forever while a slot is
\* free (so every WriteOrWait call returns while readers keep reading).
C2_NoLostWakeup == (wpc = "parked" /\ ~IsFull) ~> (wpc # "parked")

\* C3: growing queue: the values returned by Dequeue, in lock order, are a
\* prefix of the values enqueued, and once the writer has stopped and the
\* queue reads as empty they are all of them.
C3_DequeuesArePrefixOfEnqueues ==
    policy = "growing" =>
        /\ InOrder(out)
        /\ (wpc = "idle" /\ IsEmpty) => Len(out) = wend

C3_Witness ==
    /\ policy = "growing"
    /\ wpc = "idle"
    /\ wdone = MaxEnqueues
    /\ Len(out) = MaxEnqueues
    /\ NSlots > nArg
    /\ \E r \in Readers : rpc[r] = "unlock" /\ res[r] = <<>>

\* C4: growing queue: Len() read when no call is in progress equals
\* (items enqueued - items dequeued).
C4_LenIsEnqueuedMinusDequeued ==
    (policy = "growing" /\ AllIdle) => CirqueLen = wdone - Len(out)

\* C7: both variants: no written item is returned twice.
C7_NoItemReturnedTwice ==
    \A i, j \in DOMAIN out : i # j => out[i] # out[j]

\* the slot reached from s by following next k times
RECURSIVE Walk(_, _, _)
Walk(nx, s, k) == IF k = 0 THEN s ELSE Walk(nx, nx[s], k - 1)

\* nx links the slots S into one closed cycle through all of them
IsCycle(nx, S) ==
    \A s \in S :
        /\ {Walk(nx, s, i) : i \in 0..(Cardinality(S) - 1)} = S
        /\ Walk(nx, s, Cardinality(S)) = s

\* what a reader's step may not touch when it finds the queue empty
shared == <<next, prev, val, writeHead, readHead, len, cap, sent, wpc>>

\* C6: growing queue: every Enqueue call terminates under weak fairness,
\* whatever the readers do.
C6_EnqueueTerminates == (policy = "growing" /\ wpc # "idle") ~> (wpc = "idle")

\* the writer is in grow, queued on the read lock that a reader holds
C6_Witness ==
    /\ policy = "growing"
    /\ wpc = "splice"
    /\ mu \in Readers
    /\ Writer \in {waiters[i] : i \in DOMAIN waiters}

\* C8: a Read/Dequeue(k), k >= 1, that finds the read cursor equal to the
\* write cursor returns with its result as it is (zero-length when that is
\* the first test) and changes no cursor, slot or counter and notifies
\* nobody.
C8_EmptyReadChangesNothing ==
    [][\A r \in Readers :
          /\ (rpc[r] = "loop" /\ mu = r /\ IsEmpty /\ rpc'[r] # rpc[r]) =>
                 /\ rpc'[r] = "unlock"
                 /\ res'[r] = res[r]
                 /\ UNCHANGED shared
          /\ (rpc[r] = "unlock" /\ rpc'[r] # rpc[r]) =>
                 /\ rpc'[r] = "idle"
                 /\ res'[r] = res[r]
                 /\ UNCHANGED shared]_vars

\* a reader returns nothing from a queue that was filled and fully drained
C8_Witness ==
    /\ IsEmpty
    /\ wdone > 0
    /\ Len(out) = wdone
    /\ \E r \in Readers : rpc[r] = "unlock" /\ res[r] = <<>> /\ rk[r] >= 1

\* C9: New(n), n <= 0, creates no queue; New(n), n >= 1, creates a ring of
\* exactly n slots with both cursors on the same slot: the queue is empty,
\* a Read/Dequeue before any write returns nothing, and (growing) Len() is
\* 0 and the capacity counter is n.
C9_New ==
    /\ nArg <= 0 => (isNil /\ NSlots = 0 /\ out = <<>>)
    /\ (nArg >= 1 /\ wend = 0) =>
          /\ ~isNil
          /\ NSlots = nArg
          /\ IsCycle(next, 1..nArg)
          /\ readHead \in 1..nArg
          /\ IsEmpty
          /\ out = <<>>
          /\ \A r \in Readers : res[r] = <<>>
          /\ policy = "growing" => (CirqueLen = 0 /\ cap = nArg)

\* a first Read/Dequeue(k), k >= 1, is returning from a fresh queue
C9_Witness ==
    /\ nArg >= 2
    /\ wend = 0
    /\ \E r \in Readers : rpc[r] = "unlock" /\ rk[r] >= 1 /\ res[r] = <<>>

\* C10: Read/Dequeue(k) with k <= 0 returns an empty result without taking
\* the read lock and without changing any cursor, slot or counter.
C10_NonPositiveCountIsNoOp ==
    [][\A r \in Readers, k \in KArgs :
          (k <= 0 /\ (Read(r, k) \/ Dequeue(r, k))) =>
              /\ rpc'[r] = "idle"
              /\ res'[r] = <<>>
              /\ UNCHANGED <<lock, shared, out, wvars>>]_vars

\* Read(-1) has returned while the writer is suspended on a full ring
C10_Witness ==
    /\ wpc = "parked"
    /\ IsFull
    /\ mu \in Readers
    /\ \E r \in Readers : rpc[r] = "idle" /\ rk[r] < 0 /\ res[r] = <<>>

\* the items i..j in the order written
Items(i, j) == [x \in 1..(j - i + 1) |-> i + x - 1]

Suspended == wpc \in {"recv", "parked"}

\* C5 (as the claim states it): with no reader running the write of item
\* n+1 is the first that suspends, and after a Read(1) the final Read(10)
\* returns the remaining n items.
C5_SuspendsAtItemNPlusOne ==
    /\ (NoReadYet /\ Suspended) => wdone = nArg
    /\ \A r \in Readers :
          (rk[r] = 10 /\ rpc[r] = "idle") => Len(res[r]) = nArg

\* C5 (amended): with no reader running the writer writes n-1 items without
\* suspending and the write of item n is the first that suspends; a Read(1)
\* begun then returns item 1 and wakes the writer, whose write completes;
\* Read(10) then returns the remaining n-1 items in the order written.
C5_SuspendsAtItemN ==
    /\ NoReadYet =>
          /\ wdone <= nArg - 1
          /\ Suspended => wdone = nArg - 1
          /\ wpc \in {"write", "move"} => wdone < nArg - 1
    /\ \A r \in Readers :
          /\ (rk[r] = 1 /\ rpc[r] = "idle") => (res[r] = <<1>> /\ ~Suspended)
          /\ (rk[r] = 10 /\ rpc[r] = "idle") =>
                 (wdone = nArg /\ res[r] = Items(2, nArg))

\* capacity 4: the last Read(10) has returned items 2, 3, 4
C5_Witness ==
    /\ nArg = 4
    /\ \E r \in Readers : rk[r] = 10 /\ rpc[r] = "idle" /\ res[r] = <<2, 3, 4>>

\* items the writer has written and moved past that no reader has taken
Unread == wdone - Len(out)

\* no WriteOrWait / Enqueue call has been open during reader r's call
NoWriterSince(r) == rquiet[r] /\ wpc = "idle"

\* C11: a Read / Dequeue with n >= 1 returns at most n items, has moved the
\* reader head once per item returned when it returns, stops short of n
\* only at an iteration that finds the heads equal, and, when no writer call
\* was open during it, returns min(n, u) items, u being the items written
\* and not yet read when it took the lock.
C11_ReadReturnsMinOfNAndUnread ==
    [][\A r \in Readers :
          /\ rk'[r] >= 1 => Len(res'[r]) <= rk'[r]
          /\ rpc'[r] \in {"unlock", "idle"} => rmoved'[r] = Len(res'[r])
          /\ (rpc[r] = "loop" /\ rpc'[r] = "unlock" /\ Len(res[r]) < rk[r])
                => IsEmpty
          /\ (rpc[r] = "loop" /\ rpc'[r] = "unlock" /\ NoWriterSince(r))
                => Len(res[r]) = IF rk[r] <= Unread + Len(res[r])
                                 THEN rk[r]
                                 ELSE Unread + Len(res[r])]_vars

\* C12: the blocking writer never stores an item or moves its head while
\* the slot after the writer head is the reader head's slot (it tests
\* fullness again after it is woken), so whenever an item is written and
\* unread the writer head is not on the reader head.
C12_WriterNeverLandsOnReadHead ==
    [][/\ (val' # val \/ writeHead' # writeHead) => ~IsFull
       /\ Unread' >= 1 => writeHead' # readHead']_vars

\* C13: in both variants the reader head never moves off the slot the writer
\* head is on (it never passes the writer head), and every read takes a
\* slot written since it was last consumed: the value read is no nil Value
\* (the type assertion in read does not panic, spliced-in slots included)
\* and is not an item already read.
C13_ReaderNeverPassesWriter ==
    [][/\ readHead' # readHead => readHead # writeHead
       /\ ~panicked'
       /\ out' # out => /\ val[readHead] # Empty
                        /\ \A i \in 1..Len(out) : out[i] # val[readHead]]_vars

\* C14: the step of grow that adds slots links all of them in right after
\* the writer head's slot and nowhere else: readHead, writeHead, len, the
\* Value of every existing slot and the next link of every existing slot
\* but the writer head's are unchanged, the walk from the reader head to
\* the writer head visits the same slots in the same order, the new slots
\* are empty and lead back to the old successor of the writer head, and
\* the slot after the writer head is then a new empty slot, not the
\* reader head's slot.
C14_GrowSplicesAfterWriteHead ==
    [][DOMAIN next' # DOMAIN next =>
          LET new == DOMAIN next' \ DOMAIN next
              k == Cardinality(new)
          IN  /\ DOMAIN next \subseteq DOMAIN next'
              /\ UNCHANGED <<readHead, writeHead, len>>
              /\ \A s \in DOMAIN val : val'[s] = val[s]
              /\ \A s \in new : val'[s] = Empty
              /\ \A s \in DOMAIN next \ {writeHead} : next'[s] = next[s]
              /\ \A i \in 1..k : Walk(next', writeHead, i) \in new
              /\ Walk(next', writeHead, k + 1) = next[writeHead]
              /\ \A i \in 0..NSlots :
                    (\A j \in 0..(i - 1) : Walk(next, readHead, j) # writeHead)
                       => Walk(next', readHead, i) = Walk(next, readHead, i)
              /\ next'[writeHead] \in new
              /\ next'[writeHead] # readHead]_vars

\* grow has just linked new slots into a ring that holds unread items
C14_Witness ==
    /\ wpc = "growUnlock"
    /\ NSlots > nArg
    /\ Unread >= 1
    /\ next[writeHead] > nArg
    /\ val[next[writeHead]] = Empty

\* a reader past Lock and before Unlock, at a step that reads or moves
InDequeue(r) == rpc[r] \in {"read", "lenLoad", "lenStore", "move", "unlock"}

\* the writer inside grow with readMu taken
InGrow == wpc = "growUnlock" \/ (wpc = "splice" /\ mu = Writer)

\* the writer at its store, its len++ or its head move
InStore == wpc \in {"write", "lenLoad", "lenStore", "move"}

\* C15: growth and reading exclude each other: a reader that reads a slot or
\* moves the reader head holds readMu, so none does while grow holds it;
\* grow links slots in only while it holds readMu, so never while a Dequeue
\* does; the writer's store and head move are made without readMu and only
\* once the slot after the writer head is not the reader head's (after the
\* splice, when there was one).
C15_GrowExcludesDequeue ==
    /\ [](/\ \A r \in Readers : InDequeue(r) => mu = r
          /\ InGrow => \A r \in Readers : ~InDequeue(r)
          /\ InStore => mu # Writer /\ ~IsFull)
    /\ [][/\ (readHead' # readHead \/ out' # out)
                => mu \in Readers /\ InDequeue(mu) /\ ~InGrow
          /\ next' # next => mu = Writer /\ mu' = Writer
          /\ (val'[writeHead] # val[writeHead] \/ writeHead' # writeHead)
                => mu # Writer /\ mu' # Writer]_vars

\* grow holds readMu with new slots linked in while a Dequeue waits for it
C15_Witness ==
    /\ wpc = "growUnlock"
    /\ NSlots > nArg
    /\ \E r \in Readers : rpc[r] = "loop" /\ waiters = <<r>>

\* C16: in both variants the slots are always one closed cycle holding
\* every slot ever allocated exactly once, with prev the inverse of next;
\* both heads are on a slot of it and following next from the reader head
\* reaches the writer head; no step takes a slot out of the ring.
C16_RingIsOneCycle ==
    /\ [](~isNil =>
            /\ DOMAIN next = DOMAIN val
            /\ DOMAIN next = 1..NSlots
            /\ IsCycle(next, DOMAIN next)
            /\ \A s \in DOMAIN next : prev[next[s]] = s
            /\ readHead \in DOMAIN next
            /\ writeHead \in DOMAIN next
            /\ \E i \in 0..(NSlots - 1) : Walk(next, readHead, i) = writeHead)
    /\ [][DOMAIN next \subseteq DOMAIN next']_vars

\* a grown ring: the writer head is on a new slot, the reader head on an
\* old one, both still one cycle apart from each other
C16_Witness ==
    /\ policy = "growing"
    /\ NSlots > nArg
    /\ writeHead > nArg
    /\ readHead <= nArg
    /\ readHead # NoSlot
    /\ wpc = "idle"

\* C17: in the growing variant cap is always the number of slots of the
\* ring and never decreases; in the blocking variant the number of slots
\* stays the n the queue was made with.
C17_CapIsSlotCount ==
    /\ [](/\ policy = "growing" => cap = NSlots
          /\ (policy = "blocking" /\ ~isNil) => NSlots = nArg)
    /\ [][cap' >= cap /\ NSlots' >= NSlots]_vars

\* a growing queue that has grown and taken every item
C17_Witness ==
    /\ policy = "growing"
    /\ cap > nArg
    /\ NSlots > nArg
    /\ wpc = "idle"
    /\ wdone = MaxEnqueues

\* C18: a blocking Read that has taken the lock makes at most n head moves,
\* returns and releases the lock whatever the writer does; its send on
\* updateCh never waits: the step is always possible, it wakes the writer
\* when the writer is parked on the channel at that moment and leaves the
\* writer alone otherwise.
C18_ReadTerminates ==
    /\ \A r \in Readers : (mu = r) ~> (mu # r /\ rpc[r] = "idle")
    /\ [](\A r \in Readers :
             /\ rk[r] >= 1 => rmoved[r] <= rk[r]
             /\ rpc[r] = "notify" => ENABLED ReadNotify(r))
    /\ [][sent' # sent =>
             IF wpc = "parked" THEN wpc' = "write" ELSE wpc' = wpc]_vars

\* the last send of a Read(MaxK) is about to be dropped: the writer has
\* found the ring full and is not parked yet
C18_Witness ==
    \E r \in Readers :
        /\ rpc[r] = "notify"
        /\ mu = r
        /\ rk[r] = MaxK
        /\ rmoved[r] = MaxK
        /\ wpc = "recv"

\* C19: when an Enqueue of m elements finds the ring full it grows by
\* cap + m slots, which is at least what the rest of the batch needs, so
\* grow is called at most once in one Enqueue call and each growth more
\* than doubles the capacity.
C19_GrowsOncePerEnqueue ==
    /\ [](grows <= 1)
    /\ [][cap' # cap =>
             /\ cap' - cap = cap + wm
             /\ cap' - cap >= wend - wdone
             /\ cap' > 2 * cap]_vars

\* an Enqueue of MaxBatch elements has grown the full ring once and returned
C19_Witness ==
    /\ wpc = "idle"
    /\ wm = MaxBatch
    /\ wdone = wend
    /\ grows = 1
    /\ cap = 2 * nArg + MaxBatch

\* the writer inside a grow call
InGrowCall == wpc \in {"grow", "splice", "growUnlock"}

\* C20 (as stated): grow called with a negative or a zero amount is rejected:
\* its first step returns to the caller without taking readMu, and adds no
\* slot, changes no link, Value, head, len or cap, and does not panic.
C20_NonPositiveGrowIsRejected ==
    [][(wpc = "grow" /\ gmin <= 0 /\ wpc' # wpc) =>
          /\ wpc' = AfterGrow
          /\ UNCHANGED <<lock, ring, heads, len, cap>>
          /\ ~panicked']_vars

\* C20 (amended): grow called with a negative amount is rejected: its first
\* step returns to the caller without taking readMu.  Called with zero it
\* is not rejected: it takes readMu, links nothing and releases readMu.
\* In both cases no step of the call adds a slot or changes a link, a
\* Value, a head, len or cap, none panics, and the call returns to its
\* caller.
C20_NonPositiveGrowIsNoOp ==
    [][/\ (wpc = "grow" /\ gmin < 0 /\ wpc' # wpc)
             => wpc' = AfterGrow /\ UNCHANGED lock
       /\ (wpc = "grow" /\ gmin = 0 /\ wpc' # wpc)
             => wpc' = "splice" /\ (mu' = Writer \/ Writer = waiters'[Len(waiters')])
       /\ (wpc = "growUnlock" /\ gmin <= 0 /\ wpc' # wpc)
             => wpc' = AfterGrow /\ mu' # Writer
       /\ (InGrowCall /\ gmin <= 0 /\ wpc' # wpc)
             => UNCHANGED <<ring, heads, len, cap>> /\ ~panicked']_vars

\* grow(0) holds readMu, about to return, in a ring with unread items and
\* a reader waiting for the lock
C20_Witness ==
    /\ wpc = "growUnlock"
    /\ gmin = 0
    /\ Unread >= 1
    /\ waiters # <<>>
    /\ cap = nArg

============================================================================
